---------------------------- MODULE Spec2Model ----------------------------
(***************************************************************************)
(* Connection lifecycle of the Ledger wallet wrapper.                      *)
(*                                                                         *)
(* Two programs are modelled, each under its own specification:            *)
(*   Spec     src/src/index.js      (connect / disconnect / softReset)     *)
(*   SpecP    src/unnamed/part_000  (connect / polling / disconnect)       *)
(*                                                                         *)
(* JavaScript runs every piece of code between two suspension points       *)
(* (await) atomically, so every action below is one such piece: an API     *)
(* call up to its first await, or the continuation of one await.           *)
(* Continuations of a settled promise run as microtasks, in registration   *)
(* order, before any other event is handled: mq is that queue.             *)
(***************************************************************************)
EXTENDS Integers, Sequences, FiniteSets, TLC

(***************************************************************************)
(* Bounds of the model.                                                    *)
(***************************************************************************)
MaxAccount == 2
MaxCalls == 2
MaxDisconnects == 1
MaxTransports == 1
MaxSigns == 1
MaxCallsP == 1
MaxPending == 1
MaxTriggered == 2

(***************************************************************************)
(* Values.  null is 0 for handles, promises and configuration fields, and  *)
(* the empty sequence for the two strings (path, publicKey).               *)
(***************************************************************************)
NULL == 0
NoPath == <<>>
NoKey == <<>>

\* src/src/index.js:45  const BIP_PATH = "44'/148'"  (hardened segments)
BIP_PATH == <<44, 148>>

\* The 25000 of src/src/index.js:161.
TimeoutBudget == 25000
\* Granularity of the model's clock, in milliseconds.
Tick == TimeoutBudget

\* Accounts handed to ledger.connect(): numbers, and one explicit path
\* string "m/44'/148'/0'" (root marker and hardened segments).
NumberAccount(n) == [type |-> "number", n |-> n, root |-> FALSE, segs |-> <<>>]
StringAccount(r, s) == [type |-> "string", n |-> 0, root |-> r, segs |-> s]
Accounts ==
  {NumberAccount(n) : n \in 0..MaxAccount} \cup {StringAccount(TRUE, <<44, 148, 0>>)}

\* ledger.connect.path(account); "throw" stands for the thrown Error.
connect_path(account) ==
  IF account.type = "number"
    THEN IF account.n < 1 THEN "throw" ELSE BIP_PATH \o <<account.n - 1>>
    ELSE account.segs

\* What the device answers.
DevicePublicKey(p) == p
DeviceConfiguration == [version |-> 1, multiOpsEnabled |-> 1]

VARIABLES
  isNode,        \* env.isNode
  ledger,        \* the exported properties
  connection,    \* let connection: NULL or the promise of a connect() loop
  disconnection, \* let disconnection: NULL or the promise of a closeTransport()
  loops,         \* the calls of connect(path), in order: position and locals
  closes,        \* the calls of closeTransport(), in order
  created,       \* number of handles Transport.create() has returned
  mq,            \* microtask queue
  returned,      \* history: what the latest ledger.connect() call returned
  connected,     \* history: a handshake completed and nothing reset since
  nDisconnects,  \* history: number of disconnect() calls
  signs          \* the calls of ledger.sign(transaction), in order

\* src/unnamed/part_000
VARIABLES
  ledgerP,        \* const ledger = {}
  connectionP,    \* let connection
  disconnectionP, \* let disconnection: NULL or the promise of a transport.close()
  ping,           \* let ping
  isPolling,      \* let isPolling
  loopsP,         \* the calls of connect(), in order
  pollsP,         \* the calls of polling(), in order
  closesP,        \* the calls of transport.close(), in order
  requestsP,      \* getAppConfiguration() requests the device has not answered
  createdP,       \* number of handles Transport.create() has returned
  mqP,            \* microtask queue
  nDisconnectsP,  \* history: number of disconnect() calls made by the user
  notifiedP       \* history: what the latest call of ledger.onConnect found

varsI ==
  <<ledger, connection, disconnection, loops, closes, created, mq, returned,
    connected, nDisconnects>>

varsP ==
  <<ledgerP, connectionP, disconnectionP, ping, isPolling, loopsP, pollsP, closesP,
    requestsP, createdP, mqP, nDisconnectsP, notifiedP>>

varsS == <<signs>>

vars == <<isNode, varsI, varsP, varsS>>

Pending == {"create", "getPublicKey", "getAppConfiguration"}

\* src/src/index.js:232  libValues, each with its null.
libValues ==
  [transport |-> NULL, application |-> NULL, path |-> NoPath, version |-> NULL,
   publicKey |-> NoKey, multiOpsEnabled |-> NULL]

\* The part of the state the synchronous code works on.
State ==
  [ledger |-> ledger, connection |-> connection, loops |-> loops,
   connected |-> connected]

Commit(s) ==
  /\ ledger' = s.ledger
  /\ connection' = s.connection
  /\ loops' = s.loops
  /\ connected' = s.connected

softReset(s) ==
  [s EXCEPT !.connection = NULL, !.ledger.path = NoPath,
            !.ledger.publicKey = NoKey, !.connected = FALSE]

\* reset(), called by disconnect() only: the loops in flight are marked
\* cancelled (history).
reset(s) ==
  [s EXCEPT !.connection = NULL, !.ledger = libValues, !.connected = FALSE,
            !.loops = [l \in 1..Len(s.loops) |->
                         IF s.loops[l].pc \in Pending
                           THEN [s.loops[l] EXCEPT !.cancelled = TRUE]
                           ELSE s.loops[l]]]

\* Lines 141-145: the transport is there; make the application and send the
\* public-key request.
openApplication(s, l) ==
  [s EXCEPT !.ledger.application =
              IF s.ledger.application = NULL \/ isNode
                THEN s.ledger.transport ELSE @,
            !.loops[l].pc = "getPublicKey"]

\* Lines 135-140: one iteration up to its first await.
loopBody(s, l) ==
  LET t == [s EXCEPT !.loops[l].elapsed = 0] IN
  IF t.ledger.transport = NULL \/ isNode
    THEN [t EXCEPT !.loops[l].pc = "create"]
    ELSE openApplication(t, l)

\* The loop is over: its promise settles.  Only the outcome is kept.
settle(s, l, outcome) ==
  [s EXCEPT !.loops[l] = [pc |-> outcome, path |-> @.path, elapsed |-> 0,
                          cancelled |-> FALSE]]

\* Line 134: while (connection && !ledger.publicKey)
whileLoop(s, l) ==
  IF s.connection # NULL /\ s.ledger.publicKey = NoKey
    THEN loopBody(s, l)
    ELSE settle(s, l, "resolved")

\* Mutant of catchError: the budget test the other way round (retry while
\* the budget lasts, give up once it is spent).
catchError_budget(s, l) ==
  IF s.loops[l].elapsed >= TimeoutBudget
    THEN settle(softReset(s), l, "rejected")
    ELSE whileLoop(s, l)

\* Mutant of catchError: the error is thrown without the soft reset.
catchError_noReset(s, l) ==
  IF s.loops[l].elapsed < TimeoutBudget
    THEN settle(s, l, "rejected")
    ELSE whileLoop(s, l)

\* Lines 149-165: the catch block.  (For a U2FNotSupported error lines
\* 150-156 remove an iframe from the document and touch nothing else.)
catchError(s, l) ==
  IF s.loops[l].elapsed < TimeoutBudget
    THEN settle(softReset(s), l, "rejected")
    ELSE whileLoop(s, l)

\* Lines 127-134: connect(path) up to its first await; the caller stores the
\* returned promise in connection (line 114).
connect(s, path) ==
  LET l == Len(s.loops) + 1
      t == [s EXCEPT !.loops = Append(@, [pc |-> "start", path |-> path, elapsed |-> 0,
                                          cancelled |-> FALSE]),
                     !.connection = l]
  IN whileLoop(t, l)

\* Lines 113-115 of ledger.connect.
connectBody(s, path) ==
  LET t == IF s.ledger.path # NoPath /\ s.ledger.path # path THEN softReset(s) ELSE s
  IN IF t.connection = NULL THEN connect(t, path) ELSE t

\* The calls of the given kind waiting for a disconnection.
Waiting(kind) ==
  UNION {{<<c, i>> : i \in {j \in 1..Len(closes[c].waiters) :
                              closes[c].waiters[j].kind = kind}} :
         c \in 1..Len(closes)}

\* History: the call returns connection (line 115).  others tells whether a
\* loop for another path, not cancelled since, was in flight when lines
\* 113-115 began.
Returned(s, t, path) ==
  [path |-> path, loop |-> t.connection,
   others |-> \E l \in 1..Len(s.loops) :
                 /\ s.loops[l].pc \in Pending
                 /\ ~s.loops[l].cancelled
                 /\ s.loops[l].path # path]

\* src/unnamed/part_000:192  the fields of ledger, each with its undefined.
\* account, index and internalFlag are only read through "|| 0" and
\* "|| false" (lines 60-62, 78-80): undefined is kept as 0 and FALSE.
fieldsP ==
  [transport |-> NULL, application |-> NULL, path |-> NoPath, account |-> 0,
   index |-> 0, internalFlag |-> FALSE, version |-> NULL, publicKey |-> NoKey,
   multiOpsEnabled |-> NULL, error |-> "none"]

noArgP == [account |-> 0, index |-> 0, internalFlag |-> FALSE, path |-> NoPath]

Init ==
  /\ isNode \in BOOLEAN
  /\ ledger = libValues
  /\ connection = NULL
  /\ disconnection = NULL
  /\ loops = <<>>
  /\ closes = <<>>
  /\ created = 0
  /\ mq = <<>>
  /\ returned = [path |-> NoPath, loop |-> NULL, others |-> FALSE]
  /\ connected = FALSE
  /\ nDisconnects = 0
  /\ signs = <<>>
  /\ ledgerP = fieldsP
  /\ connectionP = NULL
  /\ disconnectionP = NULL
  /\ ping = FALSE
  /\ isPolling = FALSE
  /\ loopsP = <<>>
  /\ pollsP = <<>>
  /\ closesP = <<>>
  /\ requestsP = [onConnect |-> 0, polling |-> 0]
  /\ createdP = 0
  /\ mqP = <<>>
  /\ nDisconnectsP = 0
  /\ notifiedP = [called |-> FALSE, application |-> NULL, stored |-> FALSE]

\* ledger.connect(account) with an account number below 1: line 120 throws.
ConnectInvalid(account) ==
  /\ mq = <<>>
  /\ connect_path(account) = "throw"
  /\ UNCHANGED vars

\* ledger.connect(account), lines 110-116, up to its first await.
Connect(account, w) ==
  /\ mq = <<>>
  /\ Len(loops) + Cardinality(Waiting("connect")) < MaxCalls + w
  /\ connect_path(account) # "throw"
  /\ LET path == connect_path(account) IN
     IF disconnection # NULL
       THEN /\ closes' = [closes EXCEPT ![disconnection].waiters =
                            Append(@, [kind |-> "connect", path |-> path])]
            /\ UNCHANGED <<ledger, connection, loops, connected, returned>>
       ELSE LET t == connectBody(State, path) IN
            /\ Commit(t)
            /\ returned' = Returned(State, t, path)
            /\ UNCHANGED closes
  /\ UNCHANGED <<varsP, varsS>>
  /\ UNCHANGED <<isNode, disconnection, created, mq, nDisconnects>>

\* ledger.disconnect(), lines 198-209, up to its first await (or to its end).
Disconnect(w) ==
  /\ mq = <<>>
  /\ nDisconnects < MaxDisconnects + w
  /\ nDisconnects' = nDisconnects + 1
  /\ Commit(reset(State))
  /\ IF ledger.transport # NULL
       THEN /\ closes' = Append(closes, [transport |-> ledger.transport,
                                         state |-> "pending",
                                         waiters |-> <<[kind |-> "disconnect",
                                                        path |-> NoPath]>>])
            /\ disconnection' = Len(closes) + 1
       ELSE IF disconnection # NULL
         THEN /\ closes' = [closes EXCEPT ![disconnection].waiters =
                              Append(@, [kind |-> "disconnect", path |-> NoPath])]
              /\ UNCHANGED disconnection
         ELSE /\ disconnection' = NULL
              /\ UNCHANGED closes
  /\ UNCHANGED <<varsP, varsS>>
  /\ UNCHANGED <<isNode, created, mq, returned>>

\* Mutant of CloseSettled: a failure of transport.close() rejects the
\* promise of closeTransport().
CloseSettled_propagates(c, ok) ==
  /\ mq = <<>>
  /\ c \in 1..Len(closes)
  /\ closes[c].state = "pending"
  /\ closes' = [closes EXCEPT ![c].state = IF ok THEN "closed" ELSE "failed",
                              ![c].waiters = <<>>]
  /\ mq' = IF ok
             THEN <<[kind |-> "onDisconnect", path |-> NoPath]>> \o closes[c].waiters
             ELSE <<>>
  /\ UNCHANGED <<varsP, varsS>>
  /\ UNCHANGED <<isNode, ledger, connection, disconnection, loops, created,
                 returned, connected, nDisconnects>>

\* transport.close() settles; closeTransport() (lines 212-219) swallows a
\* failure, so its promise resolves either way and its reactions are queued:
\* onDisconnect (line 204) first, then the awaiting calls.
CloseSettled(c, ok) ==
  /\ mq = <<>>
  /\ c \in 1..Len(closes)
  /\ closes[c].state = "pending"
  /\ closes' = [closes EXCEPT ![c].state = IF ok THEN "closed" ELSE "failed",
                              ![c].waiters = <<>>]
  /\ mq' = <<[kind |-> "onDisconnect", path |-> NoPath]>> \o closes[c].waiters
  /\ UNCHANGED <<varsP, varsS>>
  /\ UNCHANGED <<isNode, ledger, connection, disconnection, loops, created,
                 returned, connected, nDisconnects>>

\* The head of the microtask queue runs.
RunMicrotask ==
  /\ mq # <<>>
  /\ mq' = Tail(mq)
  /\ LET task == Head(mq) IN
     CASE task.kind = "onDisconnect" ->
            \* lines 263-267: the user's callback, null by default
            UNCHANGED <<ledger, connection, loops, connected, disconnection,
                        returned>>
       [] task.kind = "disconnect" ->
            \* line 209
            /\ disconnection' = NULL
            /\ UNCHANGED <<ledger, connection, loops, connected, returned>>
       [] task.kind = "connect" ->
            \* lines 113-115
            LET t == connectBody(State, task.path) IN
            /\ Commit(t)
            /\ returned' = Returned(State, t, task.path)
            /\ UNCHANGED disconnection
  /\ UNCHANGED <<varsP, varsS>>
  /\ UNCHANGED <<isNode, closes, created, nDisconnects>>

\* Transport.create() resolves: lines 139-145.
CreateResolved(l, w) ==
  /\ mq = <<>>
  /\ l \in 1..Len(loops)
  /\ loops[l].pc = "create"
  /\ created < MaxTransports + w
  /\ created' = created + 1
  /\ Commit(openApplication([State EXCEPT !.ledger.transport = created + 1], l))
  /\ UNCHANGED <<varsP, varsS>>
  /\ UNCHANGED <<isNode, disconnection, closes, mq, returned, nDisconnects>>

\* getPublicKey() resolves: lines 145-146.  With the application gone (a
\* reset in between) line 146 throws a TypeError into the catch block.
GetPublicKeyResolved(l) ==
  /\ mq = <<>>
  /\ l \in 1..Len(loops)
  /\ loops[l].pc = "getPublicKey"
  /\ LET s == [State EXCEPT !.ledger.publicKey = DevicePublicKey(loops[l].path)] IN
     IF s.ledger.application = NULL
       THEN Commit(catchError(s, l))
       ELSE Commit([s EXCEPT !.loops[l].pc = "getAppConfiguration"])
  /\ UNCHANGED <<varsP, varsS>>
  /\ UNCHANGED <<isNode, disconnection, closes, created, mq, returned, nDisconnects>>

\* getAppConfiguration() resolves: lines 146-148, then the loop test.
GetAppConfigurationResolved(l) ==
  /\ mq = <<>>
  /\ l \in 1..Len(loops)
  /\ loops[l].pc = "getAppConfiguration"
  /\ LET s == [State EXCEPT !.ledger.version = DeviceConfiguration.version,
                            !.ledger.multiOpsEnabled = DeviceConfiguration.multiOpsEnabled,
                            !.ledger.path = loops[l].path,
                            !.connected = TRUE]
     IN Commit(whileLoop(s, l))
  /\ UNCHANGED <<varsP, varsS>>
  /\ UNCHANGED <<isNode, disconnection, closes, created, mq, returned, nDisconnects>>

\* The awaited step of the handshake rejects.
StepRejected(l) ==
  /\ mq = <<>>
  /\ l \in 1..Len(loops)
  /\ loops[l].pc \in Pending
  /\ Commit(catchError(State, l))
  /\ UNCHANGED <<varsP, varsS>>
  /\ UNCHANGED <<isNode, disconnection, closes, created, mq, returned, nDisconnects>>

\* Time passes for the loops waiting on the device.
Elapse ==
  /\ mq = <<>>
  /\ \E l \in 1..Len(loops) : loops[l].pc \in Pending /\ loops[l].elapsed < TimeoutBudget
  /\ loops' = [l \in 1..Len(loops) |->
                 IF loops[l].pc \in Pending /\ loops[l].elapsed < TimeoutBudget
                   THEN [loops[l] EXCEPT !.elapsed = @ + Tick]
                   ELSE loops[l]]
  /\ UNCHANGED <<varsP, varsS>>
  /\ UNCHANGED <<isNode, ledger, connection, disconnection, closes, created,
                 mq, returned, connected, nDisconnects>>

\* w widens the bounds on calls, disconnections and transports by w.
Next(w) ==
  \/ \E account \in Accounts : ConnectInvalid(account)
  \/ \E account \in Accounts : Connect(account, w)
  \/ Disconnect(w)
  \/ \E c \in 1..Len(closes), ok \in BOOLEAN : CloseSettled(c, ok)
  \/ RunMicrotask
  \/ \E l \in 1..Len(loops) : CreateResolved(l, w)
  \/ \E l \in 1..Len(loops) : GetPublicKeyResolved(l)
  \/ \E l \in 1..Len(loops) : GetAppConfigurationResolved(l)
  \/ \E l \in 1..Len(loops) : StepRejected(l)
  \/ Elapse

NextNarrow == Next(0)
NextWide == Next(1)

Spec == Init /\ [][NextNarrow]_vars
SpecWide == Init /\ [][NextWide]_vars


(***************************************************************************)
(* ledger.sign, src/src/index.js:179-190                                   *)
(***************************************************************************)
\* The signature the device returns for a path: it is made with the key of
\* that path.
DeviceSignature(path) == [signer |-> DevicePublicKey(path)]

\* One call of ledger.sign(transaction) with a transaction of its own:
\* position, the path sent to the device, the number of signTransaction
\* requests sent, and the signatures added to the transaction.
SignCall(pc, path, requests) ==
  [pc |-> pc, path |-> path, requests |-> requests, signatures |-> <<>>]

\* Mutant of Sign: the request is sent without looking at publicKey.
Sign_unguarded(w) ==
  /\ mq = <<>>
  /\ Len(signs) < MaxSigns + w
  /\ signs' = Append(signs,
       IF ledger.application = NULL THEN SignCall("typeError", NoPath, 0)
       ELSE SignCall("pending", ledger.path, 1))
  /\ UNCHANGED <<isNode, varsI, varsP>>

\* Lines 180-185: ledger.sign(transaction) up to its await.  Line 180 throws
\* without a publicKey; line 182 throws a TypeError without an application.
Sign(w) ==
  /\ mq = <<>>
  /\ Len(signs) < MaxSigns + w
  /\ signs' = Append(signs,
       IF ledger.publicKey = NoKey THEN SignCall("notConnected", NoPath, 0)
       ELSE IF ledger.application = NULL THEN SignCall("typeError", NoPath, 0)
       ELSE SignCall("pending", ledger.path, 1))
  /\ UNCHANGED <<isNode, varsI, varsP>>

\* Line 187: transaction.addSignature(publicKey, signature).  The library
\* throws for a publicKey that is no key; for a key that did not make the
\* signature it throws when it verifies the signature and adds the signature
\* under that key when it does not.
addSignature(call, publicKey, signature, verifies) ==
  IF publicKey = NoKey \/ (publicKey # signature.signer /\ verifies)
    THEN [call EXCEPT !.pc = "invalid"]
    ELSE [call EXCEPT !.pc = "signed",
                      !.signatures = Append(@, [key |-> publicKey,
                                                signer |-> signature.signer])]

\* Lines 182-189: signTransaction() resolves with the device's signature.
\* A request without a path is never answered with a signature.
SignResolved(i, verifies) ==
  /\ mq = <<>>
  /\ i \in 1..Len(signs)
  /\ signs[i].pc = "pending"
  /\ signs[i].path # NoPath
  /\ signs' = [signs EXCEPT ![i] =
       addSignature(@, ledger.publicKey, DeviceSignature(signs[i].path), verifies)]
  /\ UNCHANGED <<isNode, varsI, varsP>>

\* Line 182: signTransaction() rejects (refused by the user, device error).
SignRejected(i) ==
  /\ mq = <<>>
  /\ i \in 1..Len(signs)
  /\ signs[i].pc = "pending"
  /\ signs' = [signs EXCEPT ![i].pc = "failed"]
  /\ UNCHANGED <<isNode, varsI, varsP>>

\* ledger.sign next to the other operations, with one call of
\* ledger.connect fewer than in Next.
NextSign(w) ==
  \/ \E account \in Accounts : ConnectInvalid(account)
  \/ \E account \in Accounts : Connect(account, w - 1)
  \/ Disconnect(w)
  \/ \E c \in 1..Len(closes), ok \in BOOLEAN : CloseSettled(c, ok)
  \/ RunMicrotask
  \/ \E l \in 1..Len(loops) : CreateResolved(l, w)
  \/ \E l \in 1..Len(loops) : GetPublicKeyResolved(l)
  \/ \E l \in 1..Len(loops) : GetAppConfigurationResolved(l)
  \/ \E l \in 1..Len(loops) : StepRejected(l)
  \/ Elapse
  \/ Sign(w)
  \/ \E i \in 1..Len(signs), verifies \in BOOLEAN : SignResolved(i, verifies)
  \/ \E i \in 1..Len(signs) : SignRejected(i)

NextSignNarrow == NextSign(0)
NextSignWide == NextSign(1)

SpecSign == Init /\ [][NextSignNarrow]_vars
SpecSignWide == Init /\ [][NextSignWide]_vars


(***************************************************************************)
(* src/unnamed/part_000                                                    *)
(***************************************************************************)
\* The part of the state the synchronous code works on.
StateP ==
  [ledger |-> ledgerP, connection |-> connectionP, disconnection |-> disconnectionP,
   ping |-> ping, isPolling |-> isPolling, loops |-> loopsP, polls |-> pollsP,
   closes |-> closesP, requests |-> requestsP, mq |-> mqP, notified |-> notifiedP]

CommitP(s) ==
  /\ ledgerP' = s.ledger
  /\ connectionP' = s.connection
  /\ disconnectionP' = s.disconnection
  /\ ping' = s.ping
  /\ isPolling' = s.isPolling
  /\ loopsP' = s.loops
  /\ pollsP' = s.polls
  /\ closesP' = s.closes
  /\ requestsP' = s.requests
  /\ mqP' = s.mq
  /\ notifiedP' = s.notified

\* Accounts handed to ledger.connect(account, index, internalFlag); given is
\* FALSE for a call without arguments.
AccountP(a, i, f) == [given |-> TRUE, account |-> a, index |-> i, internalFlag |-> f]
AccountsP ==
  {AccountP(a, 0, FALSE) : a \in 0..(MaxAccount - 1)}
    \cup {[given |-> FALSE, account |-> 0, index |-> 0, internalFlag |-> FALSE]}

\* Lines 88-94.
makePath(account, index, internalFlag) ==
  LET p1 == <<44, 148, account>>
      p2 == IF index # 0 \/ internalFlag
              THEN p1 \o <<IF internalFlag THEN 1 ELSE 0>> ELSE p1
  IN IF index # 0 THEN p2 \o <<index>> ELSE p2

\* Lines 59-65: the arguments after the defaults, with the path.
argumentsP(a) ==
  LET account == IF a.given THEN a.account ELSE ledgerP.account
      index == IF a.given THEN a.index ELSE ledgerP.index
      flag == IF a.given THEN a.internalFlag ELSE ledgerP.internalFlag
  IN [account |-> account, index |-> index, internalFlag |-> flag,
      path |-> makePath(account, index, flag)]

\* Lines 190-195.
resetP(s) ==
  [s EXCEPT !.connection = NULL,
            !.ledger = [fieldsP EXCEPT !.error = s.ledger.error]]

\* Lines 167-175 up to the await: the request is sent, unless there is no
\* application (the TypeError is caught at line 172 and sets no ping).
\* Requests past MaxPending are not tracked: the device never answers them.
Min(a, b) == IF a < b THEN a ELSE b

sendRefresh(s, from) ==
  IF s.ledger.application = NULL
    THEN s
    ELSE [s EXCEPT !.requests[from] = Min(@ + 1, MaxPending)]

\* Lines 129-131: onConnect() up to its await.  Without an application
\* refreshAppConfiguration() returns at once and onConnect() goes on in a
\* microtask.
onConnectP(s) ==
  IF s.ledger.application = NULL
    THEN [s EXCEPT !.mq = Append(@, [kind |-> "onConnect", n |-> 0, arg |-> noArgP])]
    ELSE sendRefresh(s, "onConnect")

\* Lines 106-111: the transport is there; make the application and send the
\* public-key request for ledger.path.  Without a path (a reset in between)
\* the request throws into the catch block: lines 113-116.
openApplicationP(s, l) ==
  LET t == [s EXCEPT !.ledger.application =
                       IF s.ledger.application = NULL \/ isNode
                         THEN s.ledger.transport ELSE @]
  IN IF t.ledger.path = NoPath
       THEN [t EXCEPT !.ledger.error = "other", !.loops[l].pc = "timeout"]
       ELSE [t EXCEPT !.loops[l].pc = "getPublicKey", !.loops[l].req = t.ledger.path]

\* Lines 102-105: one iteration up to its first await.
loopBodyP(s, l) ==
  IF s.ledger.transport = NULL \/ isNode
    THEN [s EXCEPT !.loops[l].pc = "create"]
    ELSE openApplicationP(s, l)

\* Line 101: while (connection && !ledger.publicKey)
whileLoopP(s, l) ==
  IF s.connection # NULL /\ s.ledger.publicKey = NoKey
    THEN loopBodyP(s, l)
    ELSE [s EXCEPT !.loops[l] = [pc |-> "resolved", req |-> NoPath]]

\* Mutant of catchErrorP: the fatal error is retried like any other.
catchErrorP_retryAll(s, l, id) ==
  [s EXCEPT !.ledger.error = id, !.loops[l].pc = "timeout"]

\* Lines 112-117: the catch block up to its await.
catchErrorP(s, l, id) ==
  IF id = "U2FNotSupported"
    THEN [s EXCEPT !.ledger.error = id, !.loops[l] = [pc |-> "rejected", req |-> NoPath]]
    ELSE [s EXCEPT !.ledger.error = id, !.loops[l].pc = "timeout"]

\* Error ids a handshake step can fail with: U2F errors only in a browser.
ErrorIds == IF isNode THEN {"other"} ELSE {"U2FNotSupported", "other"}

\* Lines 96-101: connect() up to its first await; the caller stores the
\* returned promise in connection (line 84).
connectP(s) ==
  LET l == Len(s.loops) + 1
      t == [s EXCEPT !.loops = Append(@, [pc |-> "start", req |-> NoPath]),
                     !.ledger.error = "none",
                     !.connection = l]
  IN whileLoopP(t, l)

\* Lines 73-85 of ledger.connect.
connectBodyP(s, a) ==
  LET t == IF s.ledger.path # a.path
             THEN [s EXCEPT !.connection = NULL,
                            !.ledger.publicKey = NoKey,
                            !.ledger.path = a.path,
                            !.ledger.account = a.account,
                            !.ledger.index = a.index,
                            !.ledger.internalFlag = a.internalFlag]
             ELSE s
  IN IF t.connection = NULL THEN connectP(t) ELSE t

\* Lines 157-160: the loop test and one cycle of polling() up to its await.
pollLoop(s, k) ==
  IF s.polls[k].app = s.ledger.application
    THEN [sendRefresh([s EXCEPT !.ping = FALSE], "polling") EXCEPT !.polls[k].pc = "timeout"]
    ELSE [s EXCEPT !.polls[k].pc = "stopped"]

\* Lines 153-160: polling() up to its first await.
polling(s) ==
  LET k == Len(s.polls) + 1
      t == [s EXCEPT !.isPolling = TRUE,
                     !.polls = Append(@, [pc |-> "start", app |-> s.ledger.application,
                                          triggered |-> 0])]
  IN pollLoop(t, k)

\* Line 132: the user's ledger.onConnect, a function that looks at the
\* session it is told about: its application handle, and whether publicKey,
\* path and the configuration fields are all set.
userOnConnect(s) ==
  [s EXCEPT !.notified =
     [called |-> TRUE,
      application |-> s.ledger.application,
      stored |-> /\ s.ledger.publicKey # NoKey
                 /\ s.ledger.path # NoPath
                 /\ s.ledger.version # NULL
                 /\ s.ledger.multiOpsEnabled # NULL]]

\* Lines 132-133: onConnect() after its await.
onConnectRest(s) ==
  LET t == userOnConnect(s) IN IF ~t.isPolling THEN polling(t) ELSE t

\* Lines 181-188: ledger.disconnect(), called by the user (by = 0) or by
\* polling loop by.
disconnectP(s, by) ==
  LET t == [s EXCEPT !.isPolling = FALSE] IN
  IF t.ledger.transport # NULL
    THEN [t EXCEPT !.closes = Append(@, [transport |-> t.ledger.transport,
                                         state |-> "pending", by |-> by,
                                         fired |-> FALSE, waiters |-> <<>>]),
                   !.disconnection = Len(t.closes) + 1]
    ELSE t

\* Lines 142-146: onDisconnect, the reaction to close c.
onDisconnectP(s, c) == [resetP(s) EXCEPT !.closes[c].fired = TRUE]

Microtask(kind, n, arg) == [kind |-> kind, n |-> n, arg |-> arg]

\* Calls of ledger.connect that wait for a disconnection (line 69).
WaitingP ==
  {<<c, i>> \in (1..Len(closesP)) \X (1..(MaxCallsP + 1)) :
     i <= Len(closesP[c].waiters)}

\* Lines 58-86: ledger.connect(account, index, internalFlag) up to its await,
\* to its end when there is no disconnection.  Awaiting a promise that is
\* rejected already makes the call throw at line 69.
ConnectP(a, w) ==
  /\ mqP = <<>>
  /\ Len(loopsP) + Cardinality(WaitingP) < MaxCallsP + w
  /\ LET args == argumentsP(a) IN
       IF disconnectionP = NULL
         THEN CommitP(connectBodyP(StateP, args))
         ELSE /\ closesP[disconnectionP].state # "failed"
              /\ CommitP(
                   IF closesP[disconnectionP].state = "pending"
                     THEN [StateP EXCEPT !.closes[disconnectionP].waiters = Append(@, args)]
                     ELSE [StateP EXCEPT !.mq = Append(@, Microtask("connect", 0, args))])
  /\ UNCHANGED <<createdP, nDisconnectsP>>
  /\ UNCHANGED <<isNode, varsI, varsS>>

\* Line 104: Transport.create() resolves.
CreateResolvedP(l, w) ==
  /\ mqP = <<>>
  /\ l \in 1..Len(loopsP)
  /\ loopsP[l].pc = "create"
  /\ createdP < MaxTransports + w
  /\ createdP' = createdP + 1
  /\ CommitP(openApplicationP([StateP EXCEPT !.ledger.transport = createdP + 1], l))
  /\ UNCHANGED nDisconnectsP
  /\ UNCHANGED <<isNode, varsI, varsS>>

\* Lines 110-111 and the loop test: getPublicKey() resolves.
GetPublicKeyResolvedP(l) ==
  /\ mqP = <<>>
  /\ l \in 1..Len(loopsP)
  /\ loopsP[l].pc = "getPublicKey"
  /\ CommitP(whileLoopP(
       onConnectP([StateP EXCEPT !.ledger.publicKey = DevicePublicKey(loopsP[l].req)]), l))
  /\ UNCHANGED <<createdP, nDisconnectsP>>
  /\ UNCHANGED <<isNode, varsI, varsS>>

\* Lines 112-116: Transport.create() or getPublicKey() rejects with error id.
StepRejectedP(l, id) ==
  /\ mqP = <<>>
  /\ l \in 1..Len(loopsP)
  /\ loopsP[l].pc \in {"create", "getPublicKey"}
  /\ id \in ErrorIds
  /\ CommitP(catchErrorP(StateP, l, id))
  /\ UNCHANGED <<createdP, nDisconnectsP>>
  /\ UNCHANGED <<isNode, varsI, varsS>>

\* Line 116 and the loop test: the retry delay is over.
TimeoutFiredP(l) ==
  /\ mqP = <<>>
  /\ l \in 1..Len(loopsP)
  /\ loopsP[l].pc = "timeout"
  /\ CommitP(whileLoopP(StateP, l))
  /\ UNCHANGED <<createdP, nDisconnectsP>>
  /\ UNCHANGED <<isNode, varsI, varsS>>

\* Lines 170-174: the device answers a getAppConfiguration() request sent by
\* onConnect() or by polling(); busy is the signTransaction lock.
ConfigAnswered(from, outcome) ==
  /\ mqP = <<>>
  /\ requestsP[from] > 0
  /\ LET s == [StateP EXCEPT !.requests[from] = @ - 1]
         t == CASE outcome = "ok" ->
                     [s EXCEPT !.ledger.version = DeviceConfiguration.version,
                               !.ledger.multiOpsEnabled = DeviceConfiguration.multiOpsEnabled,
                               !.ping = TRUE]
                [] outcome = "busy" -> [s EXCEPT !.ping = TRUE]
                [] OTHER -> s
     IN CommitP(IF from = "onConnect"
                  THEN [t EXCEPT !.mq = Append(@, Microtask("onConnect", 0, noArgP))]
                  ELSE t)
  /\ UNCHANGED <<createdP, nDisconnectsP>>
  /\ UNCHANGED <<isNode, varsI, varsS>>

\* Lines 160-162 and the loop test: the polling delay of loop k is over.
PollWake(k) ==
  /\ mqP = <<>>
  /\ k \in 1..Len(pollsP)
  /\ pollsP[k].pc = "timeout"
  /\ CommitP(
       IF ping = FALSE
         THEN LET s == [disconnectP(StateP, k) EXCEPT
                          !.polls[k].triggered = Min(@ + 1, MaxTriggered)]
              IN IF ledgerP.transport # NULL
                   THEN [s EXCEPT !.polls[k].pc = "disconnect"]
                   ELSE [s EXCEPT !.polls[k].pc = "resume",
                                  !.mq = Append(@, Microtask("pollResume", k, noArgP))]
         ELSE pollLoop(StateP, k))
  /\ UNCHANGED <<createdP, nDisconnectsP>>
  /\ UNCHANGED <<isNode, varsI, varsS>>

\* Lines 181-188: the user calls ledger.disconnect().
DisconnectP(w) ==
  /\ mqP = <<>>
  /\ nDisconnectsP < MaxDisconnects + w
  /\ nDisconnectsP' = nDisconnectsP + 1
  /\ CommitP(disconnectP(StateP, 0))
  /\ UNCHANGED createdP
  /\ UNCHANGED <<isNode, varsI, varsS>>

\* Line 184: transport.close() settles.  Resolved, its reactions run in the
\* order they were added: onDisconnect (line 185), the calls of
\* ledger.connect waiting at line 69, polling() waiting at line 162.
\* Rejected, line 69 and line 162 throw and onDisconnect is not called.
CloseSettledP(c, ok) ==
  /\ mqP = <<>>
  /\ c \in 1..Len(closesP)
  /\ closesP[c].state = "pending"
  /\ LET by == closesP[c].by
         waiters == closesP[c].waiters
         s == [StateP EXCEPT !.closes[c].waiters = <<>>]
     IN CommitP(
          IF ok
            THEN [s EXCEPT !.closes[c].state = "closed",
                           !.mq = <<Microtask("onDisconnect", c, noArgP)>>
                                    \o [i \in 1..Len(waiters) |->
                                          Microtask("connect", 0, waiters[i])]
                                    \o IF by # 0
                                         THEN <<Microtask("pollResume", by, noArgP)>>
                                         ELSE <<>>]
            ELSE IF by # 0
                   THEN [s EXCEPT !.closes[c].state = "failed", !.polls[by].pc = "failed"]
                   ELSE [s EXCEPT !.closes[c].state = "failed"])
  /\ UNCHANGED <<createdP, nDisconnectsP>>
  /\ UNCHANGED <<isNode, varsI, varsS>>

\* The next promise reaction.
RunMicrotaskP ==
  /\ mqP # <<>>
  /\ LET m == Head(mqP)
         s == [StateP EXCEPT !.mq = Tail(mqP)]
     IN CommitP(
          CASE m.kind = "onDisconnect" -> onDisconnectP(s, m.n)
            [] m.kind = "connect" ->
                 connectBodyP([s EXCEPT !.disconnection = NULL], m.arg)
            [] m.kind = "pollResume" -> pollLoop(s, m.n)
            [] m.kind = "onConnect" -> onConnectRest(s))
  /\ UNCHANGED <<createdP, nDisconnectsP>>
  /\ UNCHANGED <<isNode, varsI, varsS>>

NextP(w) ==
  \/ \E a \in AccountsP : ConnectP(a, w)
  \/ \E l \in 1..(MaxCallsP + w) : CreateResolvedP(l, w)
  \/ \E l \in 1..(MaxCallsP + w) : GetPublicKeyResolvedP(l)
  \/ \E l \in 1..(MaxCallsP + w), id \in {"U2FNotSupported", "other"} : StepRejectedP(l, id)
  \/ \E l \in 1..(MaxCallsP + w) : TimeoutFiredP(l)
  \/ \E from \in {"onConnect", "polling"}, outcome \in {"ok", "busy", "error"} :
       ConfigAnswered(from, outcome)
  \/ \E k \in 1..(MaxCallsP + w) : PollWake(k)
  \/ DisconnectP(w)
  \/ \E c \in 1..Len(closesP), ok \in BOOLEAN : CloseSettledP(c, ok)
  \/ RunMicrotaskP

NextPNarrow == NextP(0)

NextPWide == NextP(1)

SpecP == Init /\ [][NextPNarrow]_vars
SpecPWide == Init /\ [][NextPWide]_vars

(***************************************************************************)
(* A device whose handshake never completes: every request is answered,    *)
(* and no getAppConfiguration() request is answered with a configuration.  *)
(***************************************************************************)
Answer(l) == CreateResolved(l, 0) \/ GetPublicKeyResolved(l) \/ StepRejected(l)

NextErrors ==
  \/ \E account \in Accounts : ConnectInvalid(account)
  \/ \E account \in Accounts : Connect(account, 0)
  \/ \E l \in 1..Len(loops) : CreateResolved(l, 0)
  \/ \E l \in 1..Len(loops) : GetPublicKeyResolved(l)
  \/ \E l \in 1..Len(loops) : StepRejected(l)
  \/ Elapse

SpecErrors ==
  Init /\ [][NextErrors]_vars /\ \A l \in 1..MaxCalls : WF_vars(Answer(l))

(***************************************************************************)
(* Claims about src/src/index.js                                           *)
(***************************************************************************)
InFlight(l) == l \in 1..Len(loops) /\ loops[l].pc \in Pending

\* Loop l begins an iteration in this step: line 135 takes a new startTime.
BeginsIteration(l) == loops'[l].pc \in Pending /\ loops'[l].elapsed < loops[l].elapsed

\* A step of loop l's handshake throws into the catch block: the awaited
\* request rejects, or line 146 finds the application gone.
HandshakeFails(l) ==
  \/ StepRejected(l)
  \/ GetPublicKeyResolved(l) /\ ledger.application = NULL

\* The state soft reset leaves.
SoftResetDone == connection = NULL /\ ledger.path = NoPath /\ ledger.publicKey = NoKey

\* C1: at most one connect retry loop is in flight (suspended in its
\* handshake) at any time.
C1_OneLoopInFlight ==
  Cardinality({l \in 1..Len(loops) : loops[l].pc \in Pending}) <= 1

\* C2: a connect(a) made while an earlier connect(a) is unresolved (a loop
\* for a is in flight and no disconnect() was called since) starts no second
\* loop: both calls share the one loop.
C2_SameAccountSharesLoop ==
  [][Len(loops') > Len(loops) =>
       ~\E l \in 1..Len(loops) :
           /\ loops[l].pc \in Pending
           /\ ~loops[l].cancelled
           /\ loops[l].path = loops'[Len(loops')].path]_vars

\* C3: a loop that was in flight when disconnect() was called begins no
\* further iteration.
C3_CancelledLoopStops ==
  [][\A l \in 1..Len(loops) : loops[l].cancelled => ~BeginsIteration(l)]_vars

\* C4: no connect loop is started while a transport.close() started by
\* disconnect() is still pending.
C4_DisconnectionCompletesFirst ==
  [][Len(loops') > Len(loops) =>
       \A c \in 1..Len(closes) : closes[c].state # "pending"]_vars

\* C5: connect(b) called while the attempt for another path a is unresolved
\* abandons that attempt: the promise it returns is that of a loop for b, and
\* no loop for another path stays in flight.
C5_SwitchAbandonsFirst ==
  returned.others =>
    /\ loops[returned.loop].path = returned.path
    /\ \A l \in 1..Len(loops) :
         loops[l].pc \in Pending /\ ~loops[l].cancelled => loops[l].path = returned.path

\* C6: publicKey is non-null exactly when a handshake has fully succeeded
\* and no disconnect() or soft reset has happened since.
C6_PublicKeyIffConnected == (ledger.publicKey # NoKey) <=> connected

\* C7 (as claimed): with a handshake that errors continuously, every attempt
\* ends by rejecting, with path and publicKey cleared.
RejectedAndIdle(l) ==
  /\ l \in 1..Len(loops)
  /\ loops[l].pc = "rejected"
  /\ ledger.path = NoPath
  /\ ledger.publicKey = NoKey

NoLateFailure == \A l \in 1..Len(loops) : loops[l].elapsed < TimeoutBudget

C9_FatalPropagatesOthersRetry ==
  [][\A l \in 1..Len(loopsP) :
       /\ StepRejectedP(l, "U2FNotSupported") =>
            /\ loopsP'[l].pc = "rejected"
            /\ ledgerP'.error = "U2FNotSupported"
       /\ StepRejectedP(l, "other") => loopsP'[l].pc = "timeout"
       /\ loopsP[l].pc = "rejected" => loopsP'[l].pc = "rejected"
       /\ loopsP[l].pc = "timeout" /\ loopsP'[l].pc # "timeout" => TimeoutFiredP(l)
       /\ TimeoutFiredP(l) =>
            IF connectionP # NULL /\ ledgerP.publicKey = NoKey
              THEN loopsP'[l].pc \in {"create", "getPublicKey", "timeout"}
              ELSE loopsP'[l].pc = "resolved"]_vars

\* An attempt that had opened a transport was rejected with the fatal error.
C9_Witness ==
  \E l \in 1..Len(loopsP) :
    /\ loopsP[l].pc = "rejected"
    /\ ledgerP.error = "U2FNotSupported"
    /\ ledgerP.transport # NULL

\* C10: a polling loop that found no ping at the end of a cycle has called
\* disconnect() once, and once that call is over onDisconnect has run
\* exactly once for it.
C10_LossDisconnectsOnce ==
  \A k \in 1..Len(pollsP) :
    pollsP[k].triggered > 0 /\ pollsP[k].pc # "disconnect" =>
      /\ pollsP[k].triggered = 1
      /\ Cardinality({c \in 1..Len(closesP) :
                        closesP[c].by = k /\ closesP[c].fired}) = 1

\* C11: whenever the user's onConnect callback is called, the session has
\* publicKey, path and the configuration fields (version, multiOpsEnabled)
\* all set.
C11_OnConnectSeesStoredSession == notifiedP.called => notifiedP.stored

\* C14: a transport.close() that fails changes nothing of the session that
\* disconnect() has reset; onDisconnect still runs and every disconnect() and
\* connect() call waiting for the disconnection resumes as it does after a
\* close that succeeded: the disconnect() call clears disconnection, the
\* connect() call gets a connect loop.
C14_CloseFailureSwallowed ==
  [][/\ nDisconnects' > nDisconnects => ledger' = libValues /\ connection' = NULL
     /\ \A c \in 1..Len(closes) :
          CloseSettled(c, FALSE) =>
            /\ mq' = <<[kind |-> "onDisconnect", path |-> NoPath]>> \o closes[c].waiters
            /\ ledger' = ledger
            /\ connection' = connection
     /\ mq # <<>> /\ Head(mq).kind = "disconnect" => disconnection' = NULL
     /\ mq # <<>> /\ Head(mq).kind = "connect" =>
          /\ connection' # NULL
          /\ returned'.loop = connection']_vars

\* A close has failed, the disconnection is over and a connect() call that
\* waited for it has its loop.
C14_Witness ==
  /\ \E c \in 1..Len(closes) : closes[c].state = "failed"
  /\ \A c \in 1..Len(closes) : closes[c].state # "pending"
  /\ mq = <<>>
  /\ disconnection = NULL
  /\ returned.loop = Len(loops)
  /\ Len(loops) > 1

\* Number of transport.close() calls made on handle t.
Closings(t) == Cardinality({c \in 1..Len(closes) : closes[c].transport = t})

\* C17: every handle Transport.create() has returned is still the session's
\* transport or was closed by disconnect(), and none was closed twice.
C17_EveryTransportClosedOnce ==
  \A t \in 1..created :
    /\ Closings(t) <= 1
    /\ t # ledger.transport => Closings(t) = 1

\* C18: when publicKey and path are both set, publicKey is the key of that
\* path.
C18_PublicKeyBelongsToPath ==
  ledger.publicKey # NoKey /\ ledger.path # NoPath =>
    ledger.publicKey = DevicePublicKey(ledger.path)

\* Polling loop k is alive: sleeping in its interval wait, or about to go on
\* with its loop.
Alive(k) == k \in 1..Len(pollsP) /\ pollsP[k].pc \in {"timeout", "disconnect", "resume"}

\* C15: at most one polling loop is alive at any time.
C15_OnePollingLoop == Cardinality({k \in 1..Len(pollsP) : Alive(k)}) <= 1

\* C16: when the session is connected (publicKey set) and onConnect has run
\* for its application handle, a polling loop keyed to that handle is alive;
\* looked at only while no transport.close() has failed.
C16_MonitorArmedWhenConnected ==
  /\ notifiedP.called
  /\ ledgerP.application # NULL
  /\ notifiedP.application = ledgerP.application
  /\ ledgerP.publicKey # NoKey
  /\ \A c \in 1..Len(closesP) : closesP[c].state # "failed"
  => \E k \in 1..Len(pollsP) : Alive(k) /\ pollsP[k].app = ledgerP.application

\* C20: a polling loop that wakes and closes the session's transport is keyed
\* to the session's current application handle.
C20_OnlyCurrentLoopDisconnects ==
  [][\A k \in 1..Len(pollsP) :
       PollWake(k) /\ Len(closesP') > Len(closesP) =>
         pollsP[k].app = ledgerP.application]_vars

(***************************************************************************)
(* Claims about ledger.sign of src/src/index.js                            *)
(***************************************************************************)
\* C12: a call of sign() made while publicKey is null fails with the
\* not-connected error, has sent no signing request and has added no
\* signature to its transaction, and nothing changes that afterwards.
C12_SignWithoutKeyFails ==
  [][/\ Len(signs') > Len(signs) /\ ledger.publicKey = NoKey =>
          signs'[Len(signs')] = SignCall("notConnected", NoPath, 0)
     /\ \A i \in 1..Len(signs) :
          signs[i].pc = "notConnected" => signs'[i] = signs[i]]_vars

\* sign() failed as not connected after a session had been set up and
\* disconnected.
C12_Witness ==
  /\ \E i \in 1..Len(signs) : signs[i].pc = "notConnected"
  /\ created > 0
  /\ nDisconnects > 0

\* C13: every call of sign() has sent at most one signing request; when the
\* request failed the transaction has no signature, and when the device
\* answered it with a signature the transaction has exactly one.
C13_OneRequestOneSignature ==
  \A i \in 1..Len(signs) :
    /\ signs[i].requests <= 1
    /\ signs[i].pc = "failed" => signs[i].signatures = <<>>
    /\ signs[i].pc \in {"signed", "invalid"} => Len(signs[i].signatures) = 1

\* C19: every signature a call of sign() has added to its transaction is
\* labelled with the public key of the path that was sent to the device.
C19_SignatureLabelledWithSigner ==
  \A i \in 1..Len(signs) :
    \A j \in 1..Len(signs[i].signatures) :
      signs[i].signatures[j].key = DevicePublicKey(signs[i].path)

====
